---- MODULE Spec2Model ----
(***************************************************************************)
(* Model of src/app.py (Critique, a Streamlit front end to a hosted text   *)
(* generation endpoint): the session state, the script's event handlers    *)
(* and the pure prompt builders / identity parsers.                        *)
(*                                                                         *)
(* A text is a sequence of symbols.  A symbol is either one character a    *)
(* user or the endpoint produced, or one literal piece of a template of    *)
(* the source (written here as the string of that piece).  Python's None   *)
(* is the empty tuple None and a present value v is Some(v) = <<v>>.       *)
(***************************************************************************)
EXTENDS Naturals, Sequences, FiniteSets, TLC

(***************************************************************************)
(* Bounds of the model.                                                    *)
(***************************************************************************)
MaxTurns == 4
MaxNotes == 2
MaxChunks == 1
MaxSegments == 4
MaxHistory == 12
MaxFieldLen == 1
MaxChatLog == 13

(***************************************************************************)
(* Program constants.                                                      *)
(***************************************************************************)
HistoryCap == 10
FocusCap == 80

None == <<>>
Some(v) == <<v>>

Min(a, b) == IF a < b THEN a ELSE b
Max(a, b) == IF a > b THEN a ELSE b

(***************************************************************************)
(* Text helpers: Python's str.join, str.strip, slicing, "in".              *)
(***************************************************************************)
RECURSIVE Concat(_)
Concat(parts) ==
    IF parts = <<>> THEN <<>> ELSE Head(parts) \o Concat(Tail(parts))

RECURSIVE Join(_, _)
Join(sep, parts) ==
    IF parts = <<>> THEN <<>>
    ELSE IF Len(parts) = 1 THEN parts[1]
    ELSE parts[1] \o sep \o Join(sep, Tail(parts))

Whitespace == {" ", "\n"}

RECURSIVE LStrip(_)
LStrip(t) ==
    IF t # <<>> /\ Head(t) \in Whitespace THEN LStrip(Tail(t)) ELSE t

RECURSIVE RStrip(_)
RStrip(t) ==
    IF t # <<>> /\ t[Len(t)] \in Whitespace
    THEN RStrip(SubSeq(t, 1, Len(t) - 1)) ELSE t

Strip(t) == RStrip(LStrip(t))

\* seq[-n:]
LastN(s, n) == SubSeq(s, Max(1, Len(s) - n + 1), Len(s))

\* seq[:n]
FirstN(s, n) == SubSeq(s, 1, Min(n, Len(s)))

\* needle in text, at position i
OccursAt(text, needle, i) ==
    /\ i >= 1
    /\ i + Len(needle) - 1 <= Len(text)
    /\ SubSeq(text, i, i + Len(needle) - 1) = needle

Contains(text, needle) ==
    \E i \in 1..(Len(text) + 1) : OccursAt(text, needle, i)

Count(text, sym) == Cardinality({i \in 1..Len(text) : text[i] = sym})

Positions(text, sym) == {i \in 1..Len(text) : text[i] = sym}

Repeat(sym, n) == [i \in 1..n |-> sym]

(***************************************************************************)
(* Literals of the source.                                                 *)
(***************************************************************************)
INIT_FAILED == "AI initialization failed. Check GEMINI_API_KEY in Streamlit secrets."
ERROR_PREFIX == "Error generating response: "
GREETING == "If you want, tell me what you're uncertain about (intent, audience, tradeoffs, constraints), and I'll help you think through it."
NO_INTAKE == "No structured intake provided yet."
NO_CRITIQUE == "No prior critique yet."
\* the one-character ellipsis U+2026 of line 470
ELLIPSIS == "..."
NOTE_SEPARATOR == "\n\n---\n\n"

\* The typographic apostrophe of the source (U+2019) is written ' here.
H_INTENT == "## Intent check"
H_QUESTIONS == "## Reflective questions"
H_LENSES == "## Lenses to apply"
H_TRADEOFFS == "## Tradeoffs worth naming"
H_DIRECTIONS == "## Next iteration directions"
H_ASK_NEXT == "## What I'd ask you next"

Headings ==
    <<H_INTENT, H_QUESTIONS, H_LENSES, H_TRADEOFFS, H_DIRECTIONS, H_ASK_NEXT>>

\* load_identity("identity.txt"): the text of the identity file, read once.
IdentityContext == <<"identity.txt">>

(***************************************************************************)
(* build_structured_prompt: the f-string, piece by piece.                  *)
(***************************************************************************)
\* variant: the work description is left out of the prompt
build_structured_prompt_no_work(identity_context, form_data) ==
    <<"SYSTEM IDENTITY & GUIDELINES:\n">> \o identity_context
      \o <<"\n\nTASK:\n...\n\nUSER CONTEXT (structured intake):\n">>
      \o <<"Design stage: ">> \o form_data.stage
      \o <<"\nArtifact type: ">> \o form_data.artifact
      \o <<"\nAudience/users: ">> \o form_data.audience
      \o <<"\nPrimary goal of the work: ">> \o form_data.goal
      \o <<"\nKey constraints: ">> \o form_data.constraints
      \o <<"\nWhat the user wants critique on: ">> \o form_data.focus
      \o <<"\n\nOUTPUT FORMAT (Markdown):\nUse exactly these sections and headings:\n\n">>
      \o <<H_INTENT, "\n(2-4 bullets: ...)\n\n">>
      \o <<H_QUESTIONS, "\n(8-12 questions, ...)\n\n">>
      \o <<H_LENSES, "\n(3-5 lenses: ...)\n\n">>
      \o <<H_TRADEOFFS, "\n(3-6 tradeoffs, ...)\n\n">>
      \o <<H_DIRECTIONS, "\n(3-5 directions ...)\n\n">>
      \o <<H_ASK_NEXT, "\n(3-5 short questions ...)\n">>

build_structured_prompt(identity_context, form_data) ==
    <<"SYSTEM IDENTITY & GUIDELINES:\n">> \o identity_context
      \o <<"\n\nTASK:\n...\n\nUSER CONTEXT (structured intake):\n">>
      \o <<"Design stage: ">> \o form_data.stage
      \o <<"\nArtifact type: ">> \o form_data.artifact
      \o <<"\nAudience/users: ">> \o form_data.audience
      \o <<"\nPrimary goal of the work: ">> \o form_data.goal
      \o <<"\nKey constraints: ">> \o form_data.constraints
      \o <<"\nWhat the user wants critique on: ">> \o form_data.focus
      \o <<"\nWork description (what exists so far):\n">> \o form_data.work
      \o <<"\n\nOUTPUT FORMAT (Markdown):\nUse exactly these sections and headings:\n\n">>
      \o <<H_INTENT, "\n(2-4 bullets: ...)\n\n">>
      \o <<H_QUESTIONS, "\n(8-12 questions, ...)\n\n">>
      \o <<H_LENSES, "\n(3-5 lenses: ...)\n\n">>
      \o <<H_TRADEOFFS, "\n(3-6 tradeoffs, ...)\n\n">>
      \o <<H_DIRECTIONS, "\n(3-5 directions ...)\n\n">>
      \o <<H_ASK_NEXT, "\n(3-5 short questions ...)\n">>

(***************************************************************************)
(* generate_chat_response, lines 186-230: the follow-up prompt.            *)
(***************************************************************************)
\* Python truthiness of an optional text / an optional dict.
TruthyText(opt) == opt # None /\ opt[1] # <<>>
TruthyDict(opt) == opt # None

HistoryLine(m) ==
    <<IF m.role = "user" THEN "User: " ELSE "Assistant: ">> \o m.content

\* variant: the slice is [:10], the oldest turns
history_text_oldest(chat_history) ==
    LET recent == FirstN(chat_history, HistoryCap)
    IN  Join(<<"\n">>, [i \in 1..Len(recent) |-> HistoryLine(recent[i])])

history_text(chat_history) ==
    LET recent == LastN(chat_history, HistoryCap)
    IN  Join(<<"\n">>, [i \in 1..Len(recent) |-> HistoryLine(recent[i])])

intake_text(last_intake) ==
    IF TruthyDict(last_intake)
    THEN Join(<<"\n">>,
              << <<"Design stage: ">> \o last_intake[1].stage,
                 <<"Artifact type: ">> \o last_intake[1].artifact,
                 <<"Audience/users: ">> \o last_intake[1].audience,
                 <<"Goal: ">> \o last_intake[1].goal,
                 <<"Constraints: ">> \o last_intake[1].constraints,
                 <<"Critique focus: ">> \o last_intake[1].focus >>)
    ELSE <<>>

L_INTAKE == "\n\nCONTEXT:\n...\n\nLAST INTAKE (if any):\n"
L_CRITIQUE == "\n\nLAST CRITIQUE (if any):\n"
L_HISTORY == "\n\nCONVERSATION HISTORY:\n"
L_USER == "\n\nUSER MESSAGE:\n"
L_TAIL == "\n\nRespond in Markdown. ...\n"

\* variant: the test is "is not None"
last_critique_text_not_none(last_result) ==
    IF last_result # None THEN last_result[1] ELSE <<NO_CRITIQUE>>

last_critique_text(last_result) ==
    IF TruthyText(last_result) THEN last_result[1] ELSE <<NO_CRITIQUE>>

chat_prompt(user_input, identity_context, chat_history, last_intake, last_result) ==
    <<"SYSTEM IDENTITY & GUIDELINES:\n">> \o identity_context
      \o <<L_INTAKE>>
      \o (IF intake_text(last_intake) # <<>> THEN intake_text(last_intake)
          ELSE <<NO_INTAKE>>)
      \o <<L_CRITIQUE>> \o last_critique_text(last_result)
      \o <<L_HISTORY>> \o history_text(chat_history)
      \o <<L_USER>> \o user_input
      \o <<L_TAIL>>

(***************************************************************************)
(* Identity parsing, lines 30-63.  An identity text is a sequence of       *)
(* tokens: the words "created", "developed", "by", "Jane" (letters only),  *)
(* the characters " ", "\n", ".", ",", "7" and the tags "<Role>",          *)
(* "</Role>".  Matching ignores case, so a token stands for every casing.  *)
(***************************************************************************)
SENTINEL == "Not specified in identity.txt"
NameTail == 60

WordTokens == {"created", "developed", "by", "Jane"}
IsSpace(tok) == tok \in {" ", "\n"}
\* [A-Za-z .,'-]
InNameClass(tok) == tok \in WordTokens \cup {" ", ".", ","}
\* \w at the first / last character of the token
IsWordChar(tok) == tok \in WordTokens \cup {"7"}
TokLen(tok) ==
    IF tok = "created" THEN 7 ELSE IF tok = "developed" THEN 9
    ELSE IF tok = "by" THEN 2 ELSE IF tok = "Jane" THEN 4
    ELSE IF tok \in {"<Role>"} THEN 6 ELSE IF tok = "</Role>" THEN 7 ELSE 1

\* re.search(rf"<{tag}>(.*?)</{tag}>", text, DOTALL | IGNORECASE), stripped
extract_tag(text, open, close) ==
    LET opens == {i \in 1..Len(text) :
                    text[i] = open /\ \E j \in (i + 1)..Len(text) : text[j] = close}
    IN  IF opens = {} THEN <<>>
        ELSE LET i == CHOOSE x \in opens : \A y \in opens : x <= y
                 j == CHOOSE x \in (i + 1)..Len(text) :
                         /\ text[x] = close
                         /\ \A y \in (i + 1)..(x - 1) : text[y] # close
             IN  Strip(SubSeq(text, i + 1, j - 1))

\* \b between text[i - 1] and text[i]
WordBoundary(text, i) ==
    (i > 1 /\ IsWordChar(text[i - 1])) # (i <= Len(text) /\ IsWordChar(text[i]))

\* \s+ from position i: the position after the run of spaces
RECURSIVE SkipSpaces(_, _)
SkipSpaces(text, i) ==
    IF i <= Len(text) /\ IsSpace(text[i]) THEN SkipSpaces(text, i + 1) ELSE i

\* [A-Za-z .,'-]{1,60}, greedy: the last position of the group that starts
\* with the token at e and has used that many characters
RECURSIVE GroupEnd(_, _, _)
GroupEnd(text, e, used) ==
    IF /\ e + 1 <= Len(text)
       /\ InNameClass(text[e + 1])
       /\ used + TokLen(text[e + 1]) <= 1 + NameTail
    THEN GroupEnd(text, e + 1, used + TokLen(text[e + 1]))
    ELSE e

\* lines 54-58: keyword, \s+, group; pattern 3 has \b on both sides
patterns ==
    << [keyword |-> <<"created", " ", "by">>, bounded |-> FALSE],
       [keyword |-> <<"developed", " ", "by">>, bounded |-> FALSE],
       [keyword |-> <<"by">>, bounded |-> TRUE] >>

\* the match of pattern p that starts at position i, as the set of its
\* groups (empty: no match at i; otherwise the one group the engine finds)
MatchAt(p, text, i) ==
    LET j == SkipSpaces(text, i + Len(p.keyword))
        hi == GroupEnd(text, j, TokLen(text[j]))
        ends == {e \in j..hi : WordBoundary(text, e + 1)}
    IN  IF ~ /\ OccursAt(text, p.keyword, i)
             /\ (p.bounded => WordBoundary(text, i))
             /\ j > i + Len(p.keyword)
             /\ j <= Len(text)
             /\ text[j] \in WordTokens
        THEN {}
        ELSE IF ~p.bounded THEN {SubSeq(text, j, hi)}
        ELSE IF ends = {} THEN {}
        ELSE {SubSeq(text, j, CHOOSE e \in ends : \A f \in ends : f <= e)}

\* re.search: the leftmost match
Search(p, text) ==
    LET starts == {i \in 1..Len(text) : MatchAt(p, text, i) # {}}
    IN  IF starts = {} THEN {}
        ELSE MatchAt(p, text, CHOOSE i \in starts : \A k \in starts : i <= k)

\* str.strip(".")
RECURSIVE StripDots(_)
StripDots(t) ==
    IF t # <<>> /\ Head(t) = "." THEN StripDots(Tail(t))
    ELSE IF t # <<>> /\ t[Len(t)] = "." THEN StripDots(SubSeq(t, 1, Len(t) - 1))
    ELSE t

\* lines 59-63 over the text the patterns are tried on
RECURSIVE first_match(_, _)
first_match(ps, text) ==
    IF ps = <<>> THEN <<SENTINEL>>
    ELSE IF Search(Head(ps), text) # {}
    THEN StripDots(Strip(CHOOSE g \in Search(Head(ps), text) : TRUE))
    ELSE first_match(Tail(ps), text)

\* variant: the patterns are tried on the whole identity text
extract_developer_name_whole_text(identity_text) ==
    first_match(patterns, identity_text)

extract_developer_name(identity_text) ==
    first_match(patterns, extract_tag(identity_text, "<Role>", "</Role>"))

(***************************************************************************)
(* Session state (init_session_state, lines 93-104) and the position of    *)
(* the script.                                                             *)
(*   pc = "landing"   the landing page is shown (st.stop(), line 357)      *)
(*   pc = "idle"      a run has finished; the page waits for an event      *)
(*   pc = "rerun"     st.rerun() was called; the script runs again         *)
(*   pc = "streaming" st.write_stream is draining generate_chat_response   *)
(*   pc = "raised"    an exception left a handler (the run is aborted)     *)
(***************************************************************************)
VARIABLES
    pc,
    has_interacted,
    messages,        \* st.session_state.messages
    genai_client,    \* None or Some("client")
    last_result,     \* None or Some(text)
    last_intake,     \* None or Some(form_data)
    notes,           \* st.session_state.notes
    submitted_view,  \* the page on display is the one of a run with submitted
    export_text,     \* None or Some(text): export_text of the last finished run
    full_prompt,     \* None or Some(text): full_prompt of the running generator
    fragments,       \* what the running generator has yielded so far, in order
    chunks,          \* number of chunks the endpoint sent on the running stream
    call,            \* history: the generate_from_form calls so far (their number
                     \* n) and the last one: its form, outcome and returned text
    stream_end,      \* history: how the last stream ended
    idn_text,        \* harness: identity text given to extract_developer_name
    idn_name,        \* harness: None or Some(result of extract_developer_name)
    sp_form,         \* harness: form_data given to build_structured_prompt
    sp_prompt,       \* harness: None or Some(result of build_structured_prompt)
    hw_history,      \* harness: chat_history given to generate_chat_response
    hw_text          \* harness: None or Some(history_text built from it)

sessionVars ==
    <<pc, has_interacted, messages, genai_client, last_result, last_intake,
      notes, submitted_view, export_text, full_prompt, fragments, chunks,
      call, stream_end>>
harnessVars == <<idn_text, idn_name, sp_form, sp_prompt, hw_history, hw_text>>
vars == <<sessionVars, harnessVars>>

(***************************************************************************)
(* Inputs: what the user types and what the endpoint answers.              *)
(***************************************************************************)
FocusShort == <<"f">>
FocusLong == Repeat("x", FocusCap + 1)

FormInputs ==
    {[stage |-> <<"Early ideation">>, artifact |-> <<"Other">>,
      audience |-> <<"a">>, goal |-> <<"g">>, constraints |-> <<>>,
      focus |-> FocusShort, work |-> <<"w">>],
     [stage |-> <<"Late stage">>, artifact |-> <<"Copy / content">>,
      audience |-> <<>>, goal |-> <<"h">>, constraints |-> <<"t">>,
      focus |-> FocusLong, work |-> <<>>]}

\* response.text of generate_content: None, "", or a text
ResponseTexts == {None, Some(<<>>), Some(<<"c", "\n">>)}
\* str(e) of the exception the endpoint call raises
ErrorTexts == {<<"503 UNAVAILABLE">>}
\* chunk.text of generate_content_stream: None/"" or a text
ChunkTexts == {<<>>, <<"k">>}
\* datetime.utcnow() at a submission, to the second
UtcNow == {<<"2026-01-01T00:00:00">>}
\* what the user types in st.chat_input
ChatInputs == {<<"q">>}

NoCall == [n |-> 0, form |-> None, outcome |-> "none", raised |-> FALSE, text |-> <<>>]

HarnessIdle ==
    /\ idn_text = <<>> /\ idn_name = None
    /\ sp_form = None /\ sp_prompt = None
    /\ hw_history = <<>> /\ hw_text = None

SessionInit ==
    /\ pc = "landing"
    /\ has_interacted = FALSE
    /\ messages = <<>>
    /\ genai_client = None
    /\ last_result = None
    /\ last_intake = None
    /\ notes = <<>>
    /\ submitted_view = FALSE
    /\ export_text = None
    /\ full_prompt = None
    /\ fragments = <<>>
    /\ chunks = 0
    /\ call = NoCall
    /\ stream_end = "none"

Init == SessionInit /\ HarnessIdle

(***************************************************************************)
(* Pieces of the script that every run executes.                           *)
(***************************************************************************)
\* lines 502-508: the greeting is seeded whenever the log is empty
greeting_seed(msgs) ==
    IF msgs = <<>>
    THEN <<[role |-> "assistant", content |-> <<GREETING>>]>>
    ELSE msgs

\* line 566: one entry of the export (the bullet U+2022 is written * here)
note_text(n) ==
    <<"[">> \o n.timestamp \o <<"] ">> \o n.stage \o <<" * ">> \o n.focus
        \o <<"\n\n">> \o n.result

\* variant: the export in the order of the display loop (newest first)
notes_export_newest_first(ns) ==
    IF ns = <<>> THEN None
    ELSE Some(Join(<<NOTE_SEPARATOR>>,
                   [i \in 1..Len(ns) |-> note_text(ns[Len(ns) + 1 - i])]))

\* lines 556-567: export_text exists only when there are notes
notes_export(ns) ==
    IF ns = <<>> THEN None
    ELSE Some(Join(<<NOTE_SEPARATOR>>, [i \in 1..Len(ns) |-> note_text(ns[i])]))

\* line 468: datetime.utcnow().isoformat(timespec="seconds") + "Z"
isoformat(now) == now \o <<"Z">>

\* lines 466-473
note_entry(t, form_data, result) ==
    [timestamp |-> isoformat(t),
     stage |-> form_data.stage,
     focus |-> FirstN(form_data.focus, FocusCap)
                 \o (IF Len(form_data.focus) > FocusCap THEN <<ELLIPSIS>> ELSE <<>>),
     result |-> result]

(***************************************************************************)
(* ensure_genai_client, lines 69-79.  secret_ok: reading the secret and    *)
(* building the client succeed.                                            *)
(***************************************************************************)
ensure_ok(client, secret_ok) == client # None \/ secret_ok
ensure_client(client, secret_ok) ==
    IF client = None /\ secret_ok THEN Some("client") ELSE client

(***************************************************************************)
(* generate_from_form, lines 161-177.  endpoint is what generate_content   *)
(* does: [fails |-> FALSE, text |-> response.text] or                       *)
(* [fails |-> TRUE, text |-> str(e)].  The value is what reaches the       *)
(* caller: a returned text, or a raised exception.                         *)
(***************************************************************************)
EndpointAnswers ==
    {[fails |-> FALSE, text |-> r] : r \in ResponseTexts}
      \cup {[fails |-> TRUE, text |-> Some(e)] : e \in ErrorTexts}

\* variant: no try/except around the endpoint call
generate_from_form_unguarded(client_ok, endpoint) ==
    IF ~client_ok
    THEN [raised |-> FALSE, outcome |-> "init_failed", text |-> <<INIT_FAILED>>]
    ELSE IF endpoint.fails
    THEN [raised |-> TRUE, outcome |-> "endpoint_failed", text |-> <<>>]
    ELSE [raised |-> FALSE, outcome |-> "ok",
          text |-> Strip(IF endpoint.text = None THEN <<>> ELSE endpoint.text[1])]

generate_from_form(client_ok, endpoint) ==
    IF ~client_ok
    THEN [raised |-> FALSE, outcome |-> "init_failed", text |-> <<INIT_FAILED>>]
    ELSE IF endpoint.fails
    THEN [raised |-> FALSE, outcome |-> "endpoint_failed",
          text |-> <<ERROR_PREFIX>> \o endpoint.text[1]]
    ELSE [raised |-> FALSE, outcome |-> "ok",
          text |-> Strip(IF endpoint.text = None THEN <<>> ELSE endpoint.text[1])]

\* variant: the new record is merged into the previous one
record_intake_merge(previous, form_data) ==
    IF previous = None THEN Some(form_data)
    ELSE Some([form_data EXCEPT !.stage = previous[1].stage])

\* line 460: the new record takes the place of the previous one
record_intake(previous, form_data) == Some(form_data)

(***************************************************************************)
(* Streaming, lines 232-242 and 530-532.                                   *)
(***************************************************************************)
\* line 239-240: a chunk without text is skipped
stream_yield(frags, chunk_text) ==
    IF chunk_text # <<>> THEN Append(frags, chunk_text) ELSE frags

\* variant: no try/except around the stream
stream_failure_unguarded(frags, e) == [raised |-> TRUE, fragments |-> frags]

\* lines 241-242: the exception of the endpoint becomes one more fragment
stream_failure(frags, e) ==
    [raised |-> FALSE, fragments |-> Append(frags, <<ERROR_PREFIX>> \o e)]

\* st.write_stream returns the concatenation of what it wrote
write_stream(frags) == Concat(frags)

assistant_turn(text) == [role |-> "assistant", content |-> text]
user_turn(text) == [role |-> "user", content |-> text]

(***************************************************************************)
(* The handlers.                                                           *)
(***************************************************************************)
\* lines 304-313: either landing button
StartSession ==
    /\ pc = "landing"
    /\ has_interacted' = TRUE
    /\ pc' = "rerun"
    /\ UNCHANGED <<messages, genai_client, last_result, last_intake, notes,
                   submitted_view, export_text, full_prompt, fragments,
                   chunks, call, stream_end>>
    /\ UNCHANGED harnessVars

\* a run of the script without a widget event (after st.rerun())
Rerun ==
    /\ pc = "rerun"
    /\ has_interacted
    /\ messages' = greeting_seed(messages)
    /\ submitted_view' = FALSE
    /\ export_text' = notes_export(notes)
    /\ pc' = "idle"
    /\ UNCHANGED <<has_interacted, genai_client, last_result, last_intake, notes, full_prompt, fragments, chunks, call, stream_end>>
    /\ UNCHANGED harnessVars

\* variant: a failed generation is shown but not recorded (no last result,
\* no note)
Submit_failure_not_recorded(form_data, secret_ok, endpoint, t) ==
    /\ pc = "idle"
    /\ Len(notes) < MaxNotes
    /\ LET result == generate_from_form(ensure_ok(genai_client, secret_ok), endpoint)
       IN  /\ last_intake' = record_intake(last_intake, form_data)
           /\ genai_client' = ensure_client(genai_client, secret_ok)
           /\ call' = [n |-> call.n + 1, form |-> Some(form_data),
                       outcome |-> result.outcome, raised |-> result.raised,
                       text |-> result.text]
           /\ IF result.outcome # "ok"
              THEN /\ messages' = greeting_seed(messages)
                   /\ submitted_view' = TRUE
                   /\ export_text' = notes_export(notes)
                   /\ pc' = "idle"
                   /\ UNCHANGED <<last_result, notes>>
              ELSE /\ last_result' = Some(result.text)
                   /\ notes' = Append(notes, note_entry(t, form_data, result.text))
                   /\ messages' = greeting_seed(messages)
                   /\ submitted_view' = TRUE
                   /\ export_text' = notes_export(notes')
                   /\ pc' = "idle"
    /\ UNCHANGED <<has_interacted, full_prompt, fragments, chunks, stream_end>>
    /\ UNCHANGED harnessVars

\* lines 450-473, then the rest of the run (chat tab, notes tab)
Submit(form_data, secret_ok, endpoint, t) ==
    /\ pc = "idle"
    /\ Len(notes) < MaxNotes
    /\ LET result == generate_from_form(ensure_ok(genai_client, secret_ok), endpoint)
       IN  /\ last_intake' = record_intake(last_intake, form_data)
           /\ genai_client' = ensure_client(genai_client, secret_ok)
           /\ call' = [n |-> call.n + 1, form |-> Some(form_data),
                       outcome |-> result.outcome, raised |-> result.raised,
                       text |-> result.text]
           /\ IF result.raised
              THEN /\ pc' = "raised"
                   /\ UNCHANGED <<last_result, notes, messages, submitted_view,
                                  export_text>>
              ELSE /\ last_result' = Some(result.text)
                   /\ notes' = Append(notes, note_entry(t, form_data, result.text))
                   /\ messages' = greeting_seed(messages)
                   /\ submitted_view' = TRUE
                   /\ export_text' = notes_export(notes')
                   /\ pc' = "idle"
    /\ UNCHANGED <<has_interacted, full_prompt, fragments, chunks, stream_end>>
    /\ UNCHANGED harnessVars

\* lines 487-494.  The button sits inside "if submitted:", so it is on the
\* page only after a run that handled a submission (submitted_view).  The
\* handler is taken as written: a click runs it.  The widget keys it blanks
\* (lines 489-491) are inputs of the next Submit, not state of the model.
ResetForm ==
    /\ pc = "idle"
    /\ submitted_view
    /\ last_intake' = None
    /\ last_result' = None
    /\ pc' = "rerun"
    /\ UNCHANGED <<has_interacted, messages, genai_client, notes, submitted_view,
                   export_text, full_prompt, fragments, chunks, call, stream_end>>
    /\ UNCHANGED harnessVars

\* lines 482-485: active_tab is read nowhere; only the rerun shows
StartFollowUp ==
    /\ pc = "idle"
    /\ submitted_view
    /\ pc' = "rerun"
    /\ UNCHANGED <<has_interacted, messages, genai_client, last_result,
                   last_intake, notes, submitted_view, export_text,
                   full_prompt, fragments, chunks, call, stream_end>>
    /\ UNCHANGED harnessVars

\* variant: the generator is given the log as it was before line 518
chat_history_before_append(log_before, prompt) == log_before

\* lines 518 and 525: the chat_history argument is the log of the session,
\* read after the user turn was appended to it
chat_history_argument(log_before, prompt) == Append(log_before, user_turn(prompt))

\* lines 516-529 and 182-230: the user turn is appended, then the generator
\* starts: client check, prompt.  cap bounds the length of the log.
ChatInputUpTo(prompt, secret_ok, cap) ==
    /\ pc = "idle"
    /\ prompt # <<>>
    /\ Len(messages) + 2 <= cap
    /\ LET log == Append(greeting_seed(messages), user_turn(prompt))
       IN  /\ genai_client' = ensure_client(genai_client, secret_ok)
           /\ submitted_view' = FALSE
           /\ chunks' = 0
           /\ IF ensure_ok(genai_client, secret_ok)
              THEN /\ full_prompt' = Some(chat_prompt(prompt, IdentityContext,
                              chat_history_argument(greeting_seed(messages), prompt),
                              last_intake, last_result))
                   /\ fragments' = <<>>
                   /\ messages' = log
                   /\ pc' = "streaming"
                   /\ UNCHANGED <<export_text, stream_end>>
              ELSE /\ full_prompt' = None
                   /\ fragments' = <<>>
                   /\ messages' = Append(log,
                          assistant_turn(write_stream(<< <<INIT_FAILED>> >>)))
                   /\ stream_end' = "init_failed"
                   /\ export_text' = notes_export(notes)
                   /\ pc' = "idle"
    /\ UNCHANGED <<has_interacted, last_result, last_intake, notes, call>>
    /\ UNCHANGED harnessVars

ChatInput(prompt, secret_ok) == ChatInputUpTo(prompt, secret_ok, MaxTurns)

\* the same handler in a session that only chats, with a longer log
ChatInputLong(prompt, secret_ok) == ChatInputUpTo(prompt, secret_ok, MaxChatLog)

\* lines 234-240: one chunk arrives
StreamChunk(chunk_text) ==
    /\ pc = "streaming"
    /\ chunks < MaxChunks
    /\ chunks' = chunks + 1
    /\ fragments' = stream_yield(fragments, chunk_text)
    /\ UNCHANGED <<pc, has_interacted, messages, genai_client, last_result,
                   last_intake, notes, submitted_view, export_text,
                   full_prompt, call, stream_end>>
    /\ UNCHANGED harnessVars

\* the endpoint completes the stream; lines 530-532 and the rest of the run
StreamEnd ==
    /\ pc = "streaming"
    /\ messages' = Append(messages, assistant_turn(write_stream(fragments)))
    /\ full_prompt' = None
    /\ fragments' = <<>>
    /\ chunks' = 0
    /\ stream_end' = "completed"
    /\ export_text' = notes_export(notes)
    /\ pc' = "idle"
    /\ UNCHANGED <<has_interacted, genai_client, last_result, last_intake, notes,
                   submitted_view, call>>
    /\ UNCHANGED harnessVars

\* the endpoint call raises, at the start or between chunks; lines 241-242
StreamFail(e) ==
    /\ pc = "streaming"
    /\ LET f == stream_failure(fragments, e)
       IN  /\ fragments' = <<>>
           /\ full_prompt' = None
           /\ chunks' = 0
           /\ stream_end' = "failed"
           /\ IF f.raised
              THEN /\ pc' = "raised"
                   /\ UNCHANGED <<messages, export_text>>
              ELSE /\ messages' = Append(messages,
                                         assistant_turn(write_stream(f.fragments)))
                   /\ export_text' = notes_export(notes)
                   /\ pc' = "idle"
    /\ UNCHANGED <<has_interacted, genai_client, last_result, last_intake, notes,
                   submitted_view, call>>
    /\ UNCHANGED harnessVars

\* variant: the clear also forgets the last critique and intake
ClearChat_and_results ==
    /\ pc = "idle"
    /\ messages' = <<>>
    /\ last_result' = None
    /\ last_intake' = None
    /\ pc' = "rerun"
    /\ UNCHANGED <<has_interacted, genai_client, notes,
                   submitted_view, export_text, full_prompt, fragments,
                   chunks, call, stream_end>>
    /\ UNCHANGED harnessVars

\* lines 537-540
ClearChat ==
    /\ pc = "idle"
    /\ messages' = <<>>
    /\ pc' = "rerun"
    /\ UNCHANGED <<has_interacted, genai_client, last_result, last_intake, notes,
                   submitted_view, export_text, full_prompt, fragments,
                   chunks, call, stream_end>>
    /\ UNCHANGED harnessVars

\* variant: the critique overwrites the last turn
BringLastCritique_overwrite ==
    /\ pc = "idle"
    /\ TruthyText(last_result)
    /\ Len(messages) < MaxTurns
    /\ messages' = [messages EXCEPT ![Len(messages)] = assistant_turn(last_result[1])]
    /\ pc' = "rerun"
    /\ UNCHANGED <<has_interacted, genai_client, last_result, last_intake, notes,
                   submitted_view, export_text, full_prompt, fragments,
                   chunks, call, stream_end>>
    /\ UNCHANGED harnessVars

\* lines 542-546
BringLastCritique ==
    /\ pc = "idle"
    /\ TruthyText(last_result)
    /\ Len(messages) < MaxTurns
    /\ messages' = Append(messages, assistant_turn(last_result[1]))
    /\ pc' = "rerun"
    /\ UNCHANGED <<has_interacted, genai_client, last_result, last_intake, notes,
                   submitted_view, export_text, full_prompt, fragments,
                   chunks, call, stream_end>>
    /\ UNCHANGED harnessVars

\* lines 547-548: nothing to bring; st.info and the run finishes
BringNothing ==
    /\ pc = "idle"
    /\ ~TruthyText(last_result)
    /\ submitted_view' = FALSE
    /\ export_text' = notes_export(notes)
    /\ UNCHANGED <<pc, has_interacted, messages, genai_client, last_result,
                   last_intake, notes, full_prompt, fragments, chunks, call, stream_end>>
    /\ UNCHANGED harnessVars

Next ==
    \/ StartSession
    \/ Rerun
    \/ \E fd \in FormInputs, ok \in BOOLEAN, ep \in EndpointAnswers, t \in UtcNow :
          Submit(fd, ok, ep, t)
    \/ ResetForm
    \/ StartFollowUp
    \/ \E p \in ChatInputs, ok \in BOOLEAN : ChatInput(p, ok)
    \/ \E c \in ChunkTexts : StreamChunk(c)
    \/ StreamEnd
    \/ \E e \in ErrorTexts : StreamFail(e)
    \/ ClearChat
    \/ BringLastCritique
    \/ BringNothing

Spec == Init /\ [][Next]_vars

\* A session that only chats: the log grows past the window of HistoryCap
\* turns.
NextChat ==
    \/ StartSession
    \/ Rerun
    \/ \E p \in ChatInputs, ok \in BOOLEAN : ChatInputLong(p, ok)
    \/ \E c \in ChunkTexts : StreamChunk(c)
    \/ StreamEnd
    \/ \E e \in ErrorTexts : StreamFail(e)

SpecChat == Init /\ [][NextChat]_vars

(***************************************************************************)
(* The pure functions on their own: the input is drawn in the initial      *)
(* state and one step applies the function to it.                          *)
(***************************************************************************)
SeqsUpTo(S, n) == UNION {[1..k -> S] : k \in 0..n}

\* extract_developer_name on identity texts: a body of up to MaxSegments
\* phrases, inside a Role section, without a tag, with an unclosed tag, or
\* in front of a Role section that holds no credit
IdentitySegments ==
    { <<"created", " ", "by", " ">>, <<"developed", " ", "by", " ">>,
      <<"by", " ">>, <<"Jane">>, <<" ">>, <<"\n">>, <<".">>, <<",">>, <<"7">> }

IdentityShapes == {"tagged", "untagged", "unclosed", "outside"}

IdentityText(shape, body) ==
    IF shape = "tagged" THEN <<"<Role>">> \o body \o <<"</Role>">>
    ELSE IF shape = "untagged" THEN body
    ELSE IF shape = "unclosed" THEN <<"<Role>">> \o body
    ELSE body \o <<"<Role>", "Jane", "</Role>">>

InitIdentity ==
    /\ SessionInit
    /\ \E k \in 0..MaxSegments : \E segs \in [1..k -> IdentitySegments] :
          \E shape \in IdentityShapes : idn_text = IdentityText(shape, Concat(segs))
    /\ idn_name = None
    /\ sp_form = None /\ sp_prompt = None
    /\ hw_history = <<>> /\ hw_text = None

\* sidebar_about, line 317
ExtractName ==
    /\ idn_name = None
    /\ idn_name' = Some(extract_developer_name(idn_text))
    /\ UNCHANGED <<idn_text, sp_form, sp_prompt, hw_history, hw_text>>
    /\ UNCHANGED sessionVars

SpecIdentity == InitIdentity /\ [][ExtractName]_vars

\* build_structured_prompt on the forms the intake form can submit: the two
\* select boxes give one of their options, the five text inputs any text
StageOptions == {<<"Early ideation">>, <<"Mid-fidelity">>, <<"Late stage">>}
ArtifactOptions ==
    {<<"App concept / feature">>, <<"Wireframe / layout">>, <<"Prototype flow">>,
     <<"Copy / content">>, <<"Other">>}
FieldTexts == SeqsUpTo({"a", H_LENSES}, MaxFieldLen)

PromptForms ==
    [stage : StageOptions, artifact : ArtifactOptions, audience : FieldTexts,
     goal : FieldTexts, constraints : FieldTexts, focus : FieldTexts,
     work : FieldTexts]

InitPrompt ==
    /\ SessionInit
    /\ idn_text = <<>> /\ idn_name = None
    /\ \E f \in PromptForms : sp_form = Some(f)
    /\ sp_prompt = None
    /\ hw_history = <<>> /\ hw_text = None

\* generate_from_form, line 166
BuildPrompt ==
    /\ sp_prompt = None
    /\ sp_prompt' = Some(build_structured_prompt(IdentityContext, sp_form[1]))
    /\ UNCHANGED <<idn_text, idn_name, sp_form, hw_history, hw_text>>
    /\ UNCHANGED sessionVars

SpecPrompt == InitPrompt /\ [][BuildPrompt]_vars

\* history_text on turn logs of every length up to MaxHistory
HistoryTurns == {user_turn(<<"q">>), assistant_turn(<<"k">>)}

InitWindow ==
    /\ SessionInit
    /\ idn_text = <<>> /\ idn_name = None
    /\ sp_form = None /\ sp_prompt = None
    /\ \E k \in 0..MaxHistory : hw_history \in [1..k -> HistoryTurns]
    /\ hw_text = None

\* generate_chat_response, lines 186-191
BuildHistory ==
    /\ hw_text = None
    /\ hw_text' = Some(history_text(hw_history))
    /\ UNCHANGED <<idn_text, idn_name, sp_form, sp_prompt, hw_history>>
    /\ UNCHANGED sessionVars

SpecWindow == InitWindow /\ [][BuildHistory]_vars

(***************************************************************************)
(* Properties of the session.                                              *)
(***************************************************************************)
IsPrefix(s, t) == Len(s) <= Len(t) /\ SubSeq(t, 1, Len(s)) = s

FirstPos(text, sym) ==
    CHOOSE i \in Positions(text, sym) : \A j \in Positions(text, sym) : i <= j

\* the part of text between the first start label and the first stop label
Section(text, start, stop) ==
    SubSeq(text, FirstPos(text, start) + 1, FirstPos(text, stop) - 1)

\* C1: when the endpoint call of a structured critique request fails,
\* generate_from_form returns a text that begins with "Error generating",
\* nothing is raised to the caller, the text is recorded in place of the
\* critique, and the session goes on taking events.
C1_FormFailureIsErrorText ==
    call.outcome = "endpoint_failed" =>
        /\ ~call.raised
        /\ pc \in {"idle", "rerun", "streaming"}
        /\ call.text # <<>>
        /\ call.text[1] = ERROR_PREFIX
        /\ notes # <<>>
        /\ notes[Len(notes)].result = call.text

\* a follow-up stream is running after a submission whose endpoint call failed
C1_Witness ==
    /\ call.outcome = "endpoint_failed"
    /\ last_result = Some(call.text)
    /\ pc = "streaming"

\* C3: every submission appends exactly one note (no other step touches the
\* notes), sets "last result" to its own result, and extends the export by
\* the separator and the new entry, so the export is the entries oldest first.
C3_NotesAccumulate ==
    [][ /\ Len(notes') = call'.n
        /\ (call'.n = call.n => notes' = notes)
        /\ (call'.n # call.n =>
              /\ Len(notes') = Len(notes) + 1
              /\ IsPrefix(notes, notes')
              /\ notes'[Len(notes')].result = call'.text
              /\ last_result' = Some(call'.text)
              /\ export_text' # None
              /\ export_text'[1] =
                    (IF notes = <<>> THEN <<>>
                     ELSE export_text[1] \o <<NOTE_SEPARATOR>>)
                      \o note_text(notes'[Len(notes')]))
      ]_vars

\* two submissions with different results: the second one is "last result"
C3_Witness ==
    /\ Len(notes) = 2
    /\ notes[1].result # notes[2].result
    /\ last_result = Some(notes[2].result)
    /\ export_text # None
    /\ Count(export_text[1], NOTE_SEPARATOR) = 1

\* C4: the step that empties the turn log (Clear chat) leaves the notes, the
\* last result and the last intake as they were.
C4_ClearKeepsResults ==
    [][ (messages # <<>> /\ messages' = <<>>) =>
           /\ notes' = notes
           /\ last_result' = last_result
           /\ last_intake' = last_intake
      ]_vars

\* the log was just cleared while a critique, its intake and a note exist
C4_Witness ==
    /\ messages = <<>>
    /\ pc = "rerun"
    /\ notes # <<>>
    /\ last_result # None
    /\ last_intake # None

\* C5: every step either appends turns at the end of the log, leaving the
\* turns it held unchanged, or empties the log.
C5_LogAppendOnly ==
    [][ IsPrefix(messages, messages') \/ messages' = <<>> ]_vars

\* a log with a user turn, its reply and a critique brought into the chat
C5_Witness ==
    /\ Len(messages) >= 4
    /\ \E i \in 1..Len(messages) : messages[i].role = "user"
    /\ last_result # None
    /\ messages[Len(messages)].content = last_result[1]
    /\ messages[Len(messages) - 1].content # last_result[1]

IntakeViewIn(section, form_data) ==
    /\ Contains(section, <<"Design stage: ">> \o form_data.stage \o <<"\n">>)
    /\ Contains(section, <<"Artifact type: ">> \o form_data.artifact \o <<"\n">>)
    /\ Contains(section, <<"Audience/users: ">> \o form_data.audience \o <<"\n">>)
    /\ Contains(section, <<"Goal: ">> \o form_data.goal \o <<"\n">>)
    /\ Contains(section, <<"Constraints: ">> \o form_data.constraints \o <<"\n">>)
    /\ Contains(section, <<"Critique focus: ">> \o form_data.focus)
    /\ ~Contains(section, <<NO_INTAKE>>)

IntakeSectionRight(p) ==
    LET section == Section(p, L_INTAKE, L_CRITIQUE)
    IN  IF last_intake # None THEN IntakeViewIn(section, last_intake[1])
        ELSE section = <<NO_INTAKE>>

\* C7 as stated: the LAST INTAKE section of a follow-up prompt is the view of
\* the last intake when there is one and the "none provided" marker otherwise;
\* the LAST CRITIQUE section is the recorded result, whatever its text, when
\* one is recorded and the "no prior critique" marker otherwise.
C7_Stated_PromptGrounding ==
    full_prompt # None =>
        /\ IntakeSectionRight(full_prompt[1])
        /\ Section(full_prompt[1], L_CRITIQUE, L_HISTORY) =
              (IF last_result # None THEN last_result[1] ELSE <<NO_CRITIQUE>>)

\* C7 as amended: the LAST CRITIQUE section is the recorded result when one
\* is recorded and its text is not empty; it is the "no prior critique"
\* marker when none is recorded or the recorded text is empty.
C7_PromptGrounding ==
    full_prompt # None =>
        /\ IntakeSectionRight(full_prompt[1])
        /\ Section(full_prompt[1], L_CRITIQUE, L_HISTORY) =
              (IF last_result # None /\ last_result[1] # <<>>
               THEN last_result[1] ELSE <<NO_CRITIQUE>>)

\* a follow-up prompt built after a submission whose critique text is empty
C7_Witness ==
    /\ full_prompt # None
    /\ last_intake # None
    /\ last_result = Some(<<>>)
    /\ Contains(full_prompt[1], <<NO_CRITIQUE>>)

UserTurnsAnswered(log) ==
    \A i \in 1..Len(log) :
        log[i].role = "user" => i < Len(log) /\ log[i + 1].role = "assistant"

FailedOutcomes == {"init_failed", "endpoint_failed"}

ErrorTextOf(outcome, text) ==
    IF outcome = "init_failed" THEN text = <<INIT_FAILED>>
    ELSE \E e \in ErrorTexts : text = <<ERROR_PREFIX>> \o e

RECURSIVE TextLines(_)
TextLines(text) ==
    IF text = <<>> THEN <<>>
    ELSE IF Positions(text, "\n") = {} THEN <<text>>
    ELSE <<SubSeq(text, 1, FirstPos(text, "\n") - 1)>>
            \o TextLines(SubSeq(text, FirstPos(text, "\n") + 1, Len(text)))

\* C11: while a follow-up prompt exists, the turn log ends with the new user
\* message; the last line of the CONVERSATION HISTORY section of the prompt
\* is that message under the label "User: ", the USER MESSAGE section is the
\* same message again, and the lines before it in the section are at most 9:
\* the turns that precede the message in the log, the 9 most recent of them
\* when there are more.
C11_WindowEndsWithNewMessage ==
    full_prompt # None =>
        LET lines == TextLines(Section(full_prompt[1], L_HISTORY, L_USER))
            new_message == Section(full_prompt[1], L_USER, L_TAIL)
            n == Len(messages)
            k == Len(lines)
        IN  /\ n >= 1
            /\ messages[n] = user_turn(new_message)
            /\ k >= 1
            /\ lines[k] = <<"User: ">> \o new_message
            /\ k - 1 = Min(9, n - 1)
            /\ \A j \in 1..k :
                  lines[j] = HistoryLine(messages[n - k + j])

\* a prompt built on a log of 12 turns: the greeting and the first user turn
\* are outside the window, 9 turns precede the new message
C11_Witness ==
    /\ full_prompt # None
    /\ Len(messages) = 12
    /\ messages[12].role = "user"
    /\ Len(TextLines(Section(full_prompt[1], L_HISTORY, L_USER))) = 10
    /\ ~Contains(full_prompt[1], <<GREETING>>)

(***************************************************************************)
(* Properties of the pure functions.                                       *)
(***************************************************************************)
TurnLabel(turn) == IF turn.role = "user" THEN "User: " ELSE "Assistant: "

\* C2: the CONVERSATION HISTORY text built from a turn log of n turns holds
\* min(10, n) lines, one per turn; they are the last turns of the log, in the
\* order of the log, each with the label of its role and its text unchanged.
C2_HistoryIsRecentWindow ==
    hw_text # None =>
        LET lines == TextLines(hw_text[1])
            n == Len(hw_history)
            k == Len(lines)
        IN  /\ k = Min(10, n)
            /\ \A j \in 1..k :
                  lines[j] = <<TurnLabel(hw_history[n - k + j])>>
                                \o hw_history[n - k + j].content

\* a log of 12 turns whose two oldest turns differ from the two after them
C2_Witness ==
    /\ hw_text # None
    /\ Len(hw_history) = 12
    /\ hw_history[1] # hw_history[3]
    /\ hw_history[2] # hw_history[12]
    /\ Len(TextLines(hw_text[1])) = 10

FormFields == {"stage", "artifact", "audience", "goal", "constraints", "focus", "work"}

FieldLabel(f) ==
    IF f = "stage" THEN "Design stage: "
    ELSE IF f = "artifact" THEN "\nArtifact type: "
    ELSE IF f = "audience" THEN "\nAudience/users: "
    ELSE IF f = "goal" THEN "\nPrimary goal of the work: "
    ELSE IF f = "constraints" THEN "\nKey constraints: "
    ELSE IF f = "focus" THEN "\nWhat the user wants critique on: "
    ELSE "\nWork description (what exists so far):\n"

FieldsVerbatim(prompt, form_data) ==
    \A f \in FormFields : Contains(prompt, <<FieldLabel(f)>> \o form_data[f])

LastPos(text, sym) ==
    CHOOSE i \in Positions(text, sym) : \A j \in Positions(text, sym) : j <= i

\* the occurrences of a heading in the field values of a form
RECURSIVE CountInFields(_, _, _)
CountInFields(form_data, fields, sym) ==
    IF fields = {} THEN 0
    ELSE LET f == CHOOSE x \in fields : TRUE
         IN  Count(form_data[f], sym) + CountInFields(form_data, fields \ {f}, sym)

\* C8 as stated: for every intake record the prompt holds every field value
\* verbatim and each of the six headings exactly once, in the fixed order.
C8_Stated_HeadingsOnce ==
    sp_prompt # None =>
        /\ FieldsVerbatim(sp_prompt[1], sp_form[1])
        /\ \A h \in 1..6 : Count(sp_prompt[1], Headings[h]) = 1
        /\ \A h \in 1..5 :
              FirstPos(sp_prompt[1], Headings[h]) < FirstPos(sp_prompt[1], Headings[h + 1])

\* C8 as amended: the prompt holds every field value verbatim after its
\* label; each heading occurs once more than it occurs in the field values
\* (so exactly once when no field value holds it), and the last occurrences
\* of the six headings, those of the template, are in the fixed order.
C8_FieldsAndHeadings ==
    sp_prompt # None =>
        /\ FieldsVerbatim(sp_prompt[1], sp_form[1])
        /\ \A h \in 1..6 :
              Count(sp_prompt[1], Headings[h]) =
                 1 + CountInFields(sp_form[1], FormFields, Headings[h])
        /\ \A h \in 1..5 :
              LastPos(sp_prompt[1], Headings[h]) < LastPos(sp_prompt[1], Headings[h + 1])

\* a prompt for a form whose work description holds one of the headings
C8_Witness ==
    /\ sp_prompt # None
    /\ sp_form[1].work = <<H_LENSES>>
    /\ sp_form[1].focus = <<"a">>
    /\ Count(sp_prompt[1], H_LENSES) = 2

Punctuation == {".", ","}

RoleSection == extract_tag(idn_text, "<Role>", "</Role>")

\* a credit "<keyword> <name...>" at position i of the role text
CreditAt(role, keyword, i) ==
    /\ OccursAt(role, keyword, i)
    /\ SkipSpaces(role, i + Len(keyword)) > i + Len(keyword)
    /\ SkipSpaces(role, i + Len(keyword)) <= Len(role)
    /\ role[SkipSpaces(role, i + Len(keyword))] \in WordTokens

Credits(role, keyword) == {i \in 1..Len(role) : CreditAt(role, keyword, i)}

\* the name starts where the first credit with that keyword starts its name
NameFromFirstCredit(role, keyword, name) ==
    LET i == CHOOSE x \in Credits(role, keyword) : \A y \in Credits(role, keyword) : x <= y
    IN  OccursAt(role, name, SkipSpaces(role, i + Len(keyword)))

NoRoleTagIsSentinel ==
    (\A i \in 1..Len(idn_text) : idn_text[i] # "<Role>") => idn_name[1] = <<SENTINEL>>

\* C10 as stated: the result is the sentinel for a text without a <Role> tag,
\* and a name it returns carries no trailing punctuation.
C10_Stated_NoTrailingPunctuation ==
    idn_name # None =>
        /\ NoRoleTagIsSentinel
        /\ (idn_name[1] # <<SENTINEL>> =>
               idn_name[1][Len(idn_name[1])] \notin Punctuation)

\* C10 as amended: the result is the sentinel for a text without a <Role>
\* tag; a name it returns is taken from the Role section, where it follows
\* "by" and spaces, starts with a letter and is cut of surrounding spaces and
\* then of periods only (it may end with a comma); a "created by" credit in
\* the Role section wins over every other one, a "developed by" credit over
\* a bare "by", and with either of them the result is not the sentinel.
C10_NameFromRole ==
    idn_name # None =>
        LET name == idn_name[1]
            role == RoleSection
        IN  /\ NoRoleTagIsSentinel
            /\ name # <<>>
            /\ (name # <<SENTINEL>> =>
                  /\ name[1] \in WordTokens
                  /\ name[Len(name)] # "."
                  /\ \E j \in 3..Len(role) :
                        /\ OccursAt(role, name, j)
                        /\ IsSpace(role[j - 1])
                        /\ \E i \in 1..(j - 2) :
                              /\ role[i] = "by"
                              /\ \A k \in (i + 1)..(j - 1) : IsSpace(role[k]))
            /\ (Credits(role, <<"created", " ", "by">>) # {} =>
                  /\ name # <<SENTINEL>>
                  /\ NameFromFirstCredit(role, <<"created", " ", "by">>, name))
            /\ ((Credits(role, <<"created", " ", "by">>) = {}
                   /\ Credits(role, <<"developed", " ", "by">>) # {}) =>
                  /\ name # <<SENTINEL>>
                  /\ NameFromFirstCredit(role, <<"developed", " ", "by">>, name))

\* "created by Jane," in the Role section: the name keeps its comma
C10_Witness ==
    /\ idn_name = Some(<<"Jane", ",">>)
    /\ idn_text = <<"<Role>", "created", " ", "by", " ", "Jane", ",", "</Role>">>

====
